---- MODULE Spec2Model ----
(***************************************************************************)
(* A model of the Strava-Challenge route handler and geometry codec.      *)
(*                                                                         *)
(*   Spec        the GET /api/strava/route handler with its module-level  *)
(*               access-token cache (src/app/api/strava/route/route.ts,   *)
(*               lines 57-159), run by several concurrent requests on one *)
(*               JavaScript event loop: every action is the code between  *)
(*               two awaits of one request.                                *)
(*   DecodeSpec  decodePolyline (src/unnamed/part_000, lines 14-52), run  *)
(*               statement by statement on bounded inputs.                *)
(***************************************************************************)
EXTENDS Integers, Sequences, FiniteSets, TLC

VARIABLES
    env,            \* process.env: the four STRAVA_* variables the handler reads
    envChanges,     \* how often process.env was changed so far (bounded)
    now,            \* Math.floor(Date.now() / 1000)
    cachedAccessToken, \* the module-level cache slot
    cacheSeq,       \* issue number of the refresh whose result the slot holds
    tokenRequests,  \* requests sent to the token endpoint so far
    routeRequests,  \* requests sent to the route endpoint so far
    req,            \* per request: the routeId query parameter of its URL
    pc,             \* per request: the await the handler is suspended at
    seq,            \* per request: issue number of its token request
    seen,           \* per request: the cache slot as it was when getAccessToken began
    res,            \* per request: the local res (the upstream answer held)
    ret,            \* per request: how getAccessToken settled
    response,       \* per request: the NextResponse that GET returned
    encoded,        \* decodePolyline: the argument, as a sequence of char codes
    index,          \* decodePolyline: index
    lat,            \* decodePolyline: lat
    lng,            \* decodePolyline: lng
    shift,          \* decodePolyline: shift
    result,         \* decodePolyline: result
    coordinates,    \* decodePolyline: coordinates
    dpc,            \* decodePolyline: the statement it is at
    points,         \* buildSvgPath: the argument points, pairs << lat, lng >>
    width,          \* buildSvgPath: width
    height,         \* buildSvgPath: height
    padding,        \* buildSvgPath: padding
    mapped,         \* buildSvgPath: mapped, pairs << x, y >> of exact fractions
    d,              \* buildSvgPath: the path, as << command, x.toFixed(2), y.toFixed(2) >>
    bbox,           \* buildSvgPath: the returned bbox
    bpc,            \* buildSvgPath: "call" before it ran, "done" after
    mounted,        \* MissionClient: "no" before it mounts, "yes", "gone" after it unmounts
    strict,         \* MissionClient: whether React runs effects twice on mount (StrictMode)
    route,          \* MissionClient: the state route
    error,          \* MissionClient: the state error
    stage,          \* MissionClient: the state stage
    load,           \* MissionClient: per run of the load effect, its load() and its cancelled
    t1,             \* MissionClient: the timer t1 of the stage effect
    t2,             \* MissionClient: the timer t2 of the stage effect
    effStage        \* MissionClient: the stage the stage effect last ran with

brokerVars == << env, envChanges, now, cachedAccessToken, cacheSeq, tokenRequests,
                 routeRequests, req, pc, seq, seen, res, ret, response >>
decodeVars == << encoded, index, lat, lng, shift, result, coordinates, dpc >>
svgVars == << points, width, height, padding, mapped, d, bbox, bpc >>
clientVars == << mounted, strict, route, error, stage, load, t1, t2, effStage >>
vars == << brokerVars, decodeVars, svgVars, clientVars >>

-----------------------------------------------------------------------------
(* Bounds of the model.                                                    *)

MaxCalls == 2        \* concurrent GET requests
MaxNow == 2          \* the clock runs 0 .. MaxNow
MaxEnvChanges == 1   \* changes of process.env during the run
MaxLen == 4          \* length of the enumerated polyline inputs
MaxPoints == 3       \* length of the enumerated point lists
MaxDim == 2          \* width and height are drawn from 0 .. MaxDim

Calls == 1 .. MaxCalls

-----------------------------------------------------------------------------
(* Values.                                                                 *)

None == "<none>"     \* undefined / null / empty string: the falsy values
Null == [token |-> None, expiresAt |-> -1]   \* cachedAccessToken = null

SafetyMargin == 30

StaticTokens == {"static-token"}
AccessTokens == {"tokA", "tokB"}
ExpiresAts == { SafetyMargin + k : k \in 0 .. (MaxNow + 1) }
QueryRouteIds == {"r-query"}
DefaultRouteIds == {"r-default"}

TokenFailStatuses == {400, 401}
RouteFailStatuses == {404, 429}
Bodies == {"body-a", "body-b"}
RoutePayloads == {"route-json"}

Envs == [ STRAVA_ACCESS_TOKEN : StaticTokens \cup {None},
          STRAVA_CLIENT_ID : {"id", None},
          STRAVA_CLIENT_SECRET : {"secret", None},
          STRAVA_REFRESH_TOKEN : {"refresh", None},
          STRAVA_DEFAULT_ROUTE_ID : DefaultRouteIds \cup {None} ]

\* `${res.status}` in a template literal: the number as text.
StatusText(s) ==
    CASE s = 200 -> "200"
      [] s = 400 -> "400"
      [] s = 401 -> "401"
      [] s = 404 -> "404"
      [] s = 429 -> "429"
      [] OTHER -> "500"

NoRes == [status |-> 0, txt |-> None, access_token |-> None, expires_at |-> -1]
NoRet == [threw |-> FALSE, value |-> None, message |-> << >>]
NoResponse == [status |-> 0, error |-> << >>, details |-> None, payload |-> None]

\* Messages are the pieces of the string, in order.
MissingEnvMessage ==
    << "Missing Strava env vars. Provide ", "STRAVA_ACCESS_TOKEN", " OR (",
       "STRAVA_CLIENT_ID", ", ", "STRAVA_CLIENT_SECRET", ", ",
       "STRAVA_REFRESH_TOKEN", ")." >>

MissingRouteIdMessage ==
    << "Missing routeId. Provide ?routeId=... or ", "STRAVA_DEFAULT_ROUTE_ID", "." >>

\* Mutant of RefreshFailedMessage: a fixed text without status and body.
RefreshFailedMessage_Generic(r) == << "Failed to refresh Strava access token" >>

\* `Strava token refresh failed (${res.status}): ${txt}`
RefreshFailedMessage(r) ==
    << "Strava token refresh failed (", StatusText(r.status), "): ", r.txt >>

FetchFailedMessage == << "fetch failed" >>

\* !clientId || !clientSecret || !refreshToken
CredentialsMissing(e) ==
    \/ e.STRAVA_CLIENT_ID = None
    \/ e.STRAVA_CLIENT_SECRET = None
    \/ e.STRAVA_REFRESH_TOKEN = None

\* Mutants of Usable: the comparison turned round, and the boundary included.
Usable_Reversed(cached, t) == cached # Null /\ cached.expiresAt - SafetyMargin < t
Usable_Inclusive(cached, t) == cached # Null /\ cached.expiresAt - SafetyMargin >= t

\* cachedAccessToken && cachedAccessToken.expiresAt - 30 > now
Usable(cached, t) == cached # Null /\ cached.expiresAt - SafetyMargin > t

\* Mutant of NewCacheEntry: expiresAt is read from a field the answer lacks.
NewCacheEntry_NoExpiry(data) == [token |-> data.access_token, expiresAt |-> -1]

\* { token: data.access_token, expiresAt: data.expires_at }
NewCacheEntry(data) == [token |-> data.access_token, expiresAt |-> data.expires_at]

\* Mutant of TokenPath: the cache is consulted before the static token.
TokenPath_CacheFirst(e, cached, t) ==
    IF Usable(cached, t) THEN "cached"
    ELSE IF e.STRAVA_ACCESS_TOKEN # None THEN "static"
    ELSE IF CredentialsMissing(e) THEN "missing"
    ELSE "refresh"

\* The branch getAccessToken takes before its first await: the order of its
\* three tests.
TokenPath(e, cached, t) ==
    IF e.STRAVA_ACCESS_TOKEN # None THEN "static"
    ELSE IF CredentialsMissing(e) THEN "missing"
    ELSE IF Usable(cached, t) THEN "cached"
    ELSE "refresh"

\* Mutant of RouteFailureResponse: the status is coerced to 500.
RouteFailureResponse_Coerced(r) ==
    [status |-> 500,
     error |-> << "Strava route fetch failed (", StatusText(r.status), ")" >>,
     details |-> r.txt,
     payload |-> None]

\* NextResponse.json({ error: ..., details: txt }, { status: res.status })
RouteFailureResponse(r) ==
    [status |-> r.status,
     error |-> << "Strava route fetch failed (", StatusText(r.status), ")" >>,
     details |-> r.txt,
     payload |-> None]

\* searchParams.get("routeId") || process.env.STRAVA_DEFAULT_ROUTE_ID
EffectiveRouteId(q, e) == IF q # None THEN q ELSE e.STRAVA_DEFAULT_ROUTE_ID

\* Mutant of MissingRouteIdResponse: the answer is an internal error.
MissingRouteIdResponse_As500 ==
    [status |-> 500, error |-> MissingRouteIdMessage, details |-> None, payload |-> None]

\* NextResponse.json({ error: "Missing routeId. ..." }, { status: 400 })
MissingRouteIdResponse ==
    [status |-> 400, error |-> MissingRouteIdMessage, details |-> None, payload |-> None]

\* NextResponse.json({ error: e?.message ?? "Unknown error" }, { status: 500 })
InternalErrorResponse(message) ==
    [status |-> 500, error |-> message, details |-> None, payload |-> None]

\* NextResponse.json({ id: route.id, ..., summary_polyline: ... })
RouteSuccessResponse(r) ==
    [status |-> 200, error |-> << >>, details |-> None, payload |-> r.txt]

-----------------------------------------------------------------------------
(* The handler, one action per stretch of code between two awaits.         *)

BrokerInit ==
    /\ env \in Envs
    /\ envChanges = 0
    /\ now = 0
    /\ cachedAccessToken = Null
    /\ cacheSeq = 0
    /\ tokenRequests = 0
    /\ routeRequests = 0
    /\ req \in [Calls -> QueryRouteIds \cup {None}]
    /\ pc = [c \in Calls |-> "start"]
    /\ seq = [c \in Calls |-> 0]
    /\ seen = [c \in Calls |-> Null]
    /\ res = [c \in Calls |-> NoRes]
    /\ ret = [c \in Calls |-> NoRet]
    /\ response = [c \in Calls |-> NoResponse]

\* Date.now() moves on.
Tick ==
    /\ now < MaxNow
    /\ now' = now + 1
    /\ UNCHANGED << req, env, envChanges, cachedAccessToken, cacheSeq, tokenRequests,
                    routeRequests, pc, seq, seen, res, ret, response >>

\* process.env is read anew by every call; something in the process sets
\* one of its variables.
SetEnv ==
    /\ envChanges < MaxEnvChanges
    /\ \E e \in Envs :
         /\ Cardinality({ k \in DOMAIN env : e[k] # env[k] }) = 1
         /\ env' = e
    /\ envChanges' = envChanges + 1
    /\ UNCHANGED << req, now, cachedAccessToken, cacheSeq, tokenRequests,
                    routeRequests, pc, seq, seen, res, ret, response >>

\* GET up to "await getAccessToken()", with getAccessToken up to its first
\* await (or its return or throw before it).
Enter(c) ==
    /\ pc[c] = "start"
    /\ req' = [req EXCEPT ![c] = None]
    /\ LET rid == EffectiveRouteId(req[c], env)
           path == TokenPath(env, cachedAccessToken, now)
       IN  IF rid = None
             THEN /\ response' = [response EXCEPT ![c] = MissingRouteIdResponse]
                  /\ pc' = [pc EXCEPT ![c] = "done"]
                  /\ UNCHANGED << ret, seq, seen, tokenRequests >>
             ELSE /\ UNCHANGED response
                  /\ seen' = [seen EXCEPT ![c] = cachedAccessToken]
                  /\ CASE path = "static" ->
                            /\ ret' = [ret EXCEPT ![c] =
                                   [threw |-> FALSE, value |-> env.STRAVA_ACCESS_TOKEN,
                                    message |-> << >>]]
                            /\ pc' = [pc EXCEPT ![c] = "tokenSettled"]
                            /\ UNCHANGED << seq, tokenRequests >>
                       [] path = "missing" ->
                            /\ ret' = [ret EXCEPT ![c] =
                                   [threw |-> TRUE, value |-> None,
                                    message |-> MissingEnvMessage]]
                            /\ pc' = [pc EXCEPT ![c] = "tokenSettled"]
                            /\ UNCHANGED << seq, tokenRequests >>
                       [] path = "cached" ->
                            /\ ret' = [ret EXCEPT ![c] =
                                   [threw |-> FALSE, value |-> cachedAccessToken.token,
                                    message |-> << >>]]
                            /\ pc' = [pc EXCEPT ![c] = "tokenSettled"]
                            /\ UNCHANGED << seq, tokenRequests >>
                       [] OTHER ->
                            /\ tokenRequests' = tokenRequests + 1
                            /\ seq' = [seq EXCEPT ![c] = tokenRequests + 1]
                            /\ pc' = [pc EXCEPT ![c] = "awaitTokenFetch"]
                            /\ UNCHANGED ret
    /\ UNCHANGED << env, envChanges, now, cachedAccessToken, cacheSeq, routeRequests, res >>

\* The token endpoint answers 2xx: "await res.json()" is next.
TokenFetchOk(c) ==
    /\ pc[c] = "awaitTokenFetch"
    /\ \E tk \in AccessTokens, ex \in ExpiresAts :
         res' = [res EXCEPT ![c] =
                   [status |-> 200, txt |-> None, access_token |-> tk, expires_at |-> ex]]
    /\ pc' = [pc EXCEPT ![c] = "awaitTokenJson"]
    /\ UNCHANGED << req, env, envChanges, now, cachedAccessToken, cacheSeq, tokenRequests,
                    routeRequests, seq, seen, ret, response >>

\* The token endpoint answers non-2xx: "await res.text()" is next.
TokenFetchNotOk(c) ==
    /\ pc[c] = "awaitTokenFetch"
    /\ \E st \in TokenFailStatuses, b \in Bodies :
         res' = [res EXCEPT ![c] =
                   [status |-> st, txt |-> b, access_token |-> None, expires_at |-> -1]]
    /\ pc' = [pc EXCEPT ![c] = "awaitTokenText"]
    /\ UNCHANGED << req, env, envChanges, now, cachedAccessToken, cacheSeq, tokenRequests,
                    routeRequests, seq, seen, ret, response >>

\* The token fetch rejects (no answer): getAccessToken throws.
TokenFetchRejects(c) ==
    /\ pc[c] = "awaitTokenFetch"
    /\ ret' = [ret EXCEPT ![c] =
                 [threw |-> TRUE, value |-> None, message |-> FetchFailedMessage]]
    /\ seq' = [seq EXCEPT ![c] = 0]
    /\ pc' = [pc EXCEPT ![c] = "tokenSettled"]
    /\ UNCHANGED << req, env, envChanges, now, cachedAccessToken, cacheSeq, tokenRequests,
                    routeRequests, seen, res, response >>

\* res.text() resolves: throw new Error(`Strava token refresh failed ...`).
TokenText(c) ==
    /\ pc[c] = "awaitTokenText"
    /\ ret' = [ret EXCEPT ![c] =
                 [threw |-> TRUE, value |-> None, message |-> RefreshFailedMessage(res[c])]]
    /\ res' = [res EXCEPT ![c] = NoRes]
    /\ seq' = [seq EXCEPT ![c] = 0]
    /\ pc' = [pc EXCEPT ![c] = "tokenSettled"]
    /\ UNCHANGED << req, env, envChanges, now, cachedAccessToken, cacheSeq, tokenRequests,
                    routeRequests, seen, response >>

\* res.json() resolves: overwrite the cache slot, return data.access_token.
TokenJson(c) ==
    /\ pc[c] = "awaitTokenJson"
    /\ cachedAccessToken' = NewCacheEntry(res[c])
    /\ cacheSeq' = seq[c]
    /\ ret' = [ret EXCEPT ![c] =
                 [threw |-> FALSE, value |-> res[c].access_token, message |-> << >>]]
    /\ res' = [res EXCEPT ![c] = NoRes]
    /\ seq' = [seq EXCEPT ![c] = 0]
    /\ pc' = [pc EXCEPT ![c] = "tokenSettled"]
    /\ UNCHANGED << req, env, envChanges, now, tokenRequests, routeRequests, seen, response >>

\* GET resumes after "await getAccessToken()": the catch block if it threw,
\* else the route fetch is sent.
TokenSettled(c) ==
    /\ pc[c] = "tokenSettled"
    /\ IF ret[c].threw
       THEN /\ response' = [response EXCEPT ![c] = InternalErrorResponse(ret[c].message)]
            /\ pc' = [pc EXCEPT ![c] = "done"]
            /\ UNCHANGED routeRequests
       ELSE /\ routeRequests' = routeRequests + 1
            /\ pc' = [pc EXCEPT ![c] = "awaitRouteFetch"]
            /\ UNCHANGED response
    /\ ret' = [ret EXCEPT ![c] = NoRet]
    /\ seen' = [seen EXCEPT ![c] = Null]
    /\ UNCHANGED << req, env, envChanges, now, cachedAccessToken, cacheSeq, tokenRequests,
                    seq, res >>

\* The route endpoint answers 2xx: "await res.json()" is next.
RouteFetchOk(c) ==
    /\ pc[c] = "awaitRouteFetch"
    /\ \E b \in RoutePayloads :
         res' = [res EXCEPT ![c] =
                   [status |-> 200, txt |-> b, access_token |-> None, expires_at |-> -1]]
    /\ pc' = [pc EXCEPT ![c] = "awaitRouteJson"]
    /\ UNCHANGED << req, env, envChanges, now, cachedAccessToken, cacheSeq, tokenRequests,
                    routeRequests, seq, seen, ret, response >>

\* The route endpoint answers non-2xx: "await res.text()" is next.
RouteFetchNotOk(c) ==
    /\ pc[c] = "awaitRouteFetch"
    /\ \E st \in RouteFailStatuses, b \in Bodies :
         res' = [res EXCEPT ![c] =
                   [status |-> st, txt |-> b, access_token |-> None, expires_at |-> -1]]
    /\ pc' = [pc EXCEPT ![c] = "awaitRouteText"]
    /\ UNCHANGED << req, env, envChanges, now, cachedAccessToken, cacheSeq, tokenRequests,
                    routeRequests, seq, seen, ret, response >>

\* The route fetch rejects: the catch block answers 500.
RouteFetchRejects(c) ==
    /\ pc[c] = "awaitRouteFetch"
    /\ response' = [response EXCEPT ![c] = InternalErrorResponse(FetchFailedMessage)]
    /\ pc' = [pc EXCEPT ![c] = "done"]
    /\ UNCHANGED << req, env, envChanges, now, cachedAccessToken, cacheSeq, tokenRequests,
                    routeRequests, seq, seen, res, ret >>

\* res.text() resolves: the upstream failure is passed on.
RouteText(c) ==
    /\ pc[c] = "awaitRouteText"
    /\ response' = [response EXCEPT ![c] = RouteFailureResponse(res[c])]
    /\ res' = [res EXCEPT ![c] = NoRes]
    /\ pc' = [pc EXCEPT ![c] = "done"]
    /\ UNCHANGED << req, env, envChanges, now, cachedAccessToken, cacheSeq, tokenRequests,
                    routeRequests, seq, seen, ret >>

\* res.json() resolves: the route payload is returned.
RouteJson(c) ==
    /\ pc[c] = "awaitRouteJson"
    /\ response' = [response EXCEPT ![c] = RouteSuccessResponse(res[c])]
    /\ res' = [res EXCEPT ![c] = NoRes]
    /\ pc' = [pc EXCEPT ![c] = "done"]
    /\ UNCHANGED << req, env, envChanges, now, cachedAccessToken, cacheSeq, tokenRequests,
                    routeRequests, seq, seen, ret >>

DecodeIdle ==
    /\ encoded = << >>
    /\ index = 0
    /\ lat = 0
    /\ lng = 0
    /\ shift = 0
    /\ result = 0
    /\ coordinates = << >>
    /\ dpc = "idle"

SvgIdle ==
    /\ points = << >>
    /\ width = 0
    /\ height = 0
    /\ padding = 0
    /\ mapped = << >>
    /\ d = << >>
    /\ bbox = << >>
    /\ bpc = "idle"

\* The runs of the load effect: one on mount, a second one under StrictMode.
Loads == {1, 2}

NoLoad == [pc |-> "idle", cancelled |-> FALSE, ok |-> FALSE, err |-> None,
           det |-> None, body |-> None]

ClientIdle ==
    /\ mounted = "no"
    /\ strict = FALSE
    /\ route = None
    /\ error = << >>
    /\ stage = "boot"
    /\ load = [l \in Loads |-> NoLoad]
    /\ t1 = "unset"
    /\ t2 = "unset"
    /\ effStage = "none"

Init == BrokerInit /\ DecodeIdle /\ SvgIdle /\ ClientIdle

Next ==
    \/ Tick /\ UNCHANGED << decodeVars, svgVars, clientVars >>
    \/ SetEnv /\ UNCHANGED << decodeVars, svgVars, clientVars >>
    \/ \E c \in Calls : Enter(c) /\ UNCHANGED << decodeVars, svgVars, clientVars >>
    \/ \E c \in Calls : TokenFetchOk(c) /\ UNCHANGED << decodeVars, svgVars, clientVars >>
    \/ \E c \in Calls : TokenFetchNotOk(c) /\ UNCHANGED << decodeVars, svgVars, clientVars >>
    \/ \E c \in Calls : TokenFetchRejects(c) /\ UNCHANGED << decodeVars, svgVars, clientVars >>
    \/ \E c \in Calls : TokenText(c) /\ UNCHANGED << decodeVars, svgVars, clientVars >>
    \/ \E c \in Calls : TokenJson(c) /\ UNCHANGED << decodeVars, svgVars, clientVars >>
    \/ \E c \in Calls : TokenSettled(c) /\ UNCHANGED << decodeVars, svgVars, clientVars >>
    \/ \E c \in Calls : RouteFetchOk(c) /\ UNCHANGED << decodeVars, svgVars, clientVars >>
    \/ \E c \in Calls : RouteFetchNotOk(c) /\ UNCHANGED << decodeVars, svgVars, clientVars >>
    \/ \E c \in Calls : RouteFetchRejects(c) /\ UNCHANGED << decodeVars, svgVars, clientVars >>
    \/ \E c \in Calls : RouteText(c) /\ UNCHANGED << decodeVars, svgVars, clientVars >>
    \/ \E c \in Calls : RouteJson(c) /\ UNCHANGED << decodeVars, svgVars, clientVars >>

Spec == Init /\ [][Next]_vars

-----------------------------------------------------------------------------
(* Properties of the token cache and the handler.                          *)

\* The step in which request c calls getAccessToken.
Called(c) == pc[c] = "start" /\ pc'[c] \in {"tokenSettled", "awaitTokenFetch"}

\* The requests whose token request is in flight.
Refreshing == { c \in Calls : pc[c] \in {"awaitTokenFetch", "awaitTokenJson", "awaitTokenText"} }

CredentialNames == {"STRAVA_CLIENT_ID", "STRAVA_CLIENT_SECRET", "STRAVA_REFRESH_TOKEN"}

\* The credentials a message names.
NamesIn(message) == { message[i] : i \in DOMAIN message } \cap CredentialNames

\* The credentials that are absent from e.
MissingCredentials(e) == { k \in CredentialNames : e[k] = None }

\* C1: concurrent callers never duplicate a refresh: the check-cache-else-
\* refresh sequence runs as if under mutual exclusion, so at most one
\* request to the token endpoint is in flight at any time.
C1_NoDuplicateRefresh == Cardinality(Refreshing) <= 1

\* C2: once the cache holds the result of refresh R it never afterwards holds
\* the result of a refresh that was issued before R.
C2_NoClobberByEarlierRefresh == [][cacheSeq' >= cacheSeq]_vars

\* C3: with no static token, all credentials present and a cached token with
\* expiresAt - 30 > now, getAccessToken returns exactly the cached token,
\* sends no token request and leaves the cache as it is.
C3_FastPath ==
    [][\A c \in Calls :
          ( /\ Called(c)
            /\ env.STRAVA_ACCESS_TOKEN = None
            /\ MissingCredentials(env) = {}
            /\ cachedAccessToken # Null
            /\ cachedAccessToken.expiresAt - 30 > now )
          => ( /\ pc'[c] = "tokenSettled"
               /\ ret'[c] = [threw |-> FALSE, value |-> cachedAccessToken.token,
                             message |-> << >>]
               /\ tokenRequests' = tokenRequests
               /\ cachedAccessToken' = cachedAccessToken )]_vars

\* C3 witness: two requests hold a token each, no static token was ever
\* configured, and one token request was sent: one of them was served from
\* the cache.
C3_Witness ==
    /\ envChanges = 0
    /\ env.STRAVA_ACCESS_TOKEN = None
    /\ tokenRequests = 1
    /\ Cardinality({ c \in Calls : pc[c] = "awaitRouteFetch" }) >= 2

\* C4: a cached token with expiresAt <= now + 30 (the boundary included) is
\* never returned from the cache: getAccessToken sends a token request.
C4_ExpiryBoundaryExclusive ==
    [][\A c \in Calls :
          ( /\ Called(c)
            /\ env.STRAVA_ACCESS_TOKEN = None
            /\ MissingCredentials(env) = {}
            /\ cachedAccessToken # Null
            /\ cachedAccessToken.expiresAt <= now + 30 )
          => ( /\ pc'[c] = "awaitTokenFetch"
               /\ tokenRequests' = tokenRequests + 1
               /\ ret'[c] = NoRet )]_vars

\* C4 witness: a request found a token expiring exactly at now + 30 in the
\* slot and has a token request in flight.
C4_Witness ==
    \E c \in Calls :
        /\ pc[c] = "awaitTokenFetch"
        /\ seen[c] # Null
        /\ seen[c].expiresAt = now + 30

\* C5: the cache slot changes only by taking token and expiresAt together
\* from one successful refresh answer; a non-2xx answer and a rejected fetch
\* leave it as it was, and a non-null slot is never reset to null.
C5_CacheReplacedOnlyBySuccess ==
    [][ /\ (cachedAccessToken' # cachedAccessToken) =>
              \E c \in Calls :
                  /\ pc[c] = "awaitTokenJson"
                  /\ pc'[c] = "tokenSettled"
                  /\ res[c].status \in 200 .. 299
                  /\ cachedAccessToken'.token = res[c].access_token
                  /\ cachedAccessToken'.expiresAt = res[c].expires_at
        /\ \A c \in Calls :
              (pc[c] \in {"awaitTokenFetch", "awaitTokenText"} /\ pc'[c] = "tokenSettled")
                  => cachedAccessToken' = cachedAccessToken
        /\ (cachedAccessToken # Null) => (cachedAccessToken' # Null) ]_vars

\* C5 witness: a refresh has just failed with a non-2xx answer while the slot
\* holds a token.
C5_Witness ==
    \E c \in Calls :
        /\ pc[c] = "tokenSettled"
        /\ ret[c].threw
        /\ Len(ret[c].message) = 4
        /\ cachedAccessToken # Null

\* C6: whenever a static access token is configured, getAccessToken returns
\* it whatever the cache holds and whatever the other credentials are, sends
\* no token request and leaves the cache as it is.
C6_StaticTokenBypass ==
    [][\A c \in Calls :
          (Called(c) /\ env.STRAVA_ACCESS_TOKEN # None)
          => ( /\ pc'[c] = "tokenSettled"
               /\ ret'[c] = [threw |-> FALSE, value |-> env.STRAVA_ACCESS_TOKEN,
                             message |-> << >>]
               /\ tokenRequests' = tokenRequests
               /\ cachedAccessToken' = cachedAccessToken )]_vars

\* C6 witness: the static token was returned to a request that found a stale
\* token in the slot.
C6_Witness ==
    \E c \in Calls :
        /\ pc[c] = "tokenSettled"
        /\ ret[c].value \in StaticTokens
        /\ seen[c] # Null
        /\ seen[c].expiresAt - 30 <= now

\* C7: with no static token and a credential absent, getAccessToken fails
\* with a message that names exactly the absent credentials, and sends no
\* token request.
C7_MissingCredentialsNamedExactly ==
    [][\A c \in Calls :
          ( /\ Called(c)
            /\ env.STRAVA_ACCESS_TOKEN = None
            /\ MissingCredentials(env) # {} )
          => ( /\ pc'[c] = "tokenSettled"
               /\ ret'[c].threw
               /\ NamesIn(ret'[c].message) = MissingCredentials(env)
               /\ tokenRequests' = tokenRequests )]_vars

\* C10: whenever the route endpoint answers with a non-2xx status S and body
\* B, GET responds with status S and a body whose details field is B.
C10_UpstreamFailurePassthrough ==
    [][\A c \in Calls :
          /\ (pc[c] = "awaitRouteFetch" /\ res'[c] # NoRes /\ res'[c].status \notin 200 .. 299)
                => pc'[c] = "awaitRouteText"
          /\ (pc[c] = "awaitRouteText" /\ pc'[c] # "awaitRouteText")
                => ( /\ pc'[c] = "done"
                     /\ res[c].status \notin 200 .. 299
                     /\ response'[c].status = res[c].status
                     /\ response'[c].details = res[c].txt )]_vars

\* C10 witness: a request was answered 404 with the upstream body as details.
C10_Witness ==
    \E c \in Calls :
        /\ pc[c] = "done"
        /\ response[c].status = 404
        /\ response[c].details = "body-b"

\* C11: a GET with no routeId query parameter and no configured default
\* route id is answered 400 with the missing-routeId message before a token
\* is resolved: no token request, no route request, the cache unchanged.
C11_MissingRouteId ==
    [][\A c \in Calls :
          ( /\ pc[c] = "start"
            /\ pc'[c] # "start"
            /\ req[c] = None
            /\ env.STRAVA_DEFAULT_ROUTE_ID = None )
          => ( /\ pc'[c] = "done"
               /\ response'[c].status = 400
               /\ response'[c].error = MissingRouteIdMessage
               /\ tokenRequests' = tokenRequests
               /\ routeRequests' = routeRequests
               /\ cachedAccessToken' = cachedAccessToken
               /\ ret'[c] = NoRet )]_vars

\* C11 witness: a request was answered 400 while the slot holds a token and
\* one token request and one route request were sent, both by the other
\* request.
C11_Witness ==
    \E c \in Calls :
        /\ pc[c] = "done"
        /\ response[c].status = 400
        /\ cachedAccessToken # Null
        /\ tokenRequests = 1
        /\ routeRequests = 1

\* C13: a getAccessToken call whose refresh request is answered non-2xx fails
\* with an error that carries the upstream status and body, and it has sent
\* exactly one token request: a call sends its request when it starts and
\* none later.
C13_RefreshFailureSurfaced ==
    [][ /\ \A c \in Calls :
              /\ (pc[c] = "awaitTokenFetch" /\ res'[c] # NoRes /\ res'[c].status \notin 200 .. 299)
                    => pc'[c] = "awaitTokenText"
              /\ (pc[c] = "awaitTokenText" /\ pc'[c] # "awaitTokenText")
                    => ( /\ pc'[c] = "tokenSettled"
                         /\ res[c].status \notin 200 .. 299
                         /\ ret'[c].threw
                         /\ \E i, j \in DOMAIN ret'[c].message :
                               /\ ret'[c].message[i] = StatusText(res[c].status)
                               /\ ret'[c].message[j] = res[c].txt )
              /\ (pc'[c] = "start") => (pc[c] = "start")
        /\ (tokenRequests' # tokenRequests)
              => ( /\ tokenRequests' = tokenRequests + 1
                   /\ \E c \in Calls : pc[c] = "start" /\ pc'[c] = "awaitTokenFetch" ) ]_vars

\* C13 witness: getAccessToken has thrown after a 401 answer with its body,
\* one token request sent.
C13_Witness ==
    \E c \in Calls :
        /\ pc[c] = "tokenSettled"
        /\ ret[c].threw
        /\ ret[c].message = << "Strava token refresh failed (", "401", "): ", "body-a" >>
        /\ tokenRequests = 1

-----------------------------------------------------------------------------
(* decodePolyline.  A string is the sequence of its UTF-16 code units; the  *)
(* bitwise operators work on 32-bit two's complement integers, as in        *)
(* JavaScript.                                                              *)

Alphabet == {48, 64, 65, 95, 96}     \* "0", "@", "A", "_", "`"

\* "_p~iF~ps|U_ulLnnqC_mqNvxq`@"
StandardVector ==
    << 95, 112, 126, 105, 70, 126, 112, 115, 124, 85, 95, 117, 108, 76, 110,
       110, 113, 67, 95, 109, 113, 78, 118, 120, 113, 96, 64 >>

RECURSIVE StringsOfLength(_)
StringsOfLength(n) ==
    IF n = 0 THEN { << >> }
    ELSE { Append(s, ch) : s \in StringsOfLength(n - 1), ch \in Alphabet }

Inputs == UNION { StringsOfLength(n) : n \in 0 .. MaxLen } \cup {StandardVector}

RECURSIVE Pow2(_)
Pow2(n) == IF n = 0 THEN 1 ELSE 2 * Pow2(n - 1)

\* The low 31 bits of a 32-bit integer, and the integer of a sign bit and
\* 31 low bits.
Low31(x) == IF x >= 0 THEN x ELSE (x + 2147483647) + 1
SignBit(x) == IF x >= 0 THEN 0 ELSE 1
Int32(sign, low) == IF sign = 1 THEN (low - 2147483647) - 1 ELSE low

RECURSIVE BitOr(_, _)
BitOr(a, b) ==
    IF a = 0 THEN b
    ELSE IF b = 0 THEN a
    ELSE (IF a % 2 = 1 \/ b % 2 = 1 THEN 1 ELSE 0) + 2 * BitOr(a \div 2, b \div 2)

\* a | b
Or32(a, b) ==
    Int32(IF SignBit(a) = 1 \/ SignBit(b) = 1 THEN 1 ELSE 0, BitOr(Low31(a), Low31(b)))

\* v << s for v in 0 .. 31: the shift count is taken modulo 32 and the bits
\* shifted past bit 31 are lost.
Shl32(v, s) ==
    LET k == s % 32
        keep == IF 31 - k >= 5 THEN v ELSE v % Pow2(31 - k)
        low == IF keep = 0 THEN 0 ELSE keep * Pow2(k)
        sign == IF 31 - k <= 4 THEN (v \div Pow2(31 - k)) % 2 ELSE 0
    IN  Int32(sign, low)

\* encoded.charCodeAt(i) - 63, masked: (b & 0x1f).  Past the end charCodeAt
\* is NaN, and NaN & 0x1f is 0.
Chunk(s, i) == IF i < Len(s) THEN (s[i + 1] - 63) % 32 ELSE 0

\* b >= 0x20.  Past the end b is NaN, and NaN >= 0x20 is false.
Continues(s, i) == i < Len(s) /\ s[i + 1] - 63 >= 32

\* Mutant of UnZigZag: the sign is dropped.
UnZigZag_NoSign(r) == r \div 2

\* (result & 1) ? ~(result >> 1) : result >> 1
UnZigZag(r) == IF r % 2 = 1 THEN -(r \div 2) - 1 ELSE r \div 2

\* n / 1e5, kept exact as a fraction
Div1e5(n) == [num |-> n, den |-> 100000]

DecodeInit ==
    /\ encoded \in Inputs
    /\ index = 0
    /\ lat = 0
    /\ lng = 0
    /\ shift = 0
    /\ result = 0
    /\ coordinates = << >>
    /\ dpc = "while"

\* while (index < len) { let shift = 0; let result = 0; ...
DecodeWhile ==
    /\ dpc = "while"
    /\ IF index < Len(encoded)
       THEN /\ shift' = 0
            /\ result' = 0
            /\ dpc' = "lat"
       ELSE /\ dpc' = "done"
            /\ UNCHANGED << shift, result >>
    /\ UNCHANGED << encoded, index, lat, lng, coordinates >>

\* One round of the first do-while, and what follows it when it ends.
DecodeLatChunk ==
    /\ dpc = "lat"
    /\ index' = index + 1
    /\ LET r == Or32(result, Shl32(Chunk(encoded, index), shift))
       IN  IF Continues(encoded, index)
           THEN /\ result' = r
                /\ shift' = shift + 5
                /\ UNCHANGED << lat, dpc >>
           ELSE /\ lat' = lat + UnZigZag(r)
                /\ shift' = 0
                /\ result' = 0
                /\ dpc' = "lng"
    /\ UNCHANGED << encoded, lng, coordinates >>

\* One round of the second do-while, and what follows it when it ends.
DecodeLngChunk ==
    /\ dpc = "lng"
    /\ index' = index + 1
    /\ LET r == Or32(result, Shl32(Chunk(encoded, index), shift))
       IN  IF Continues(encoded, index)
           THEN /\ result' = r
                /\ shift' = shift + 5
                /\ UNCHANGED << lng, coordinates, dpc >>
           ELSE /\ lng' = lng + UnZigZag(r)
                /\ coordinates' = Append(coordinates,
                                         << Div1e5(lat), Div1e5(lng + UnZigZag(r)) >>)
                /\ result' = r
                /\ shift' = shift + 5
                /\ dpc' = "while"
    /\ UNCHANGED << encoded, lat >>

BrokerIdle ==
    /\ env = [k \in {"STRAVA_ACCESS_TOKEN", "STRAVA_CLIENT_ID", "STRAVA_CLIENT_SECRET",
                     "STRAVA_REFRESH_TOKEN", "STRAVA_DEFAULT_ROUTE_ID"} |-> None]
    /\ envChanges = 0
    /\ now = 0
    /\ cachedAccessToken = Null
    /\ cacheSeq = 0
    /\ tokenRequests = 0
    /\ routeRequests = 0
    /\ req = [c \in Calls |-> None]
    /\ pc = [c \in Calls |-> "done"]
    /\ seq = [c \in Calls |-> 0]
    /\ seen = [c \in Calls |-> Null]
    /\ res = [c \in Calls |-> NoRes]
    /\ ret = [c \in Calls |-> NoRet]
    /\ response = [c \in Calls |-> NoResponse]

DecodeSpecInit == BrokerIdle /\ DecodeInit /\ SvgIdle /\ ClientIdle

DecodeNext ==
    \/ DecodeWhile /\ UNCHANGED << brokerVars, svgVars, clientVars >>
    \/ DecodeLatChunk /\ UNCHANGED << brokerVars, svgVars, clientVars >>
    \/ DecodeLngChunk /\ UNCHANGED << brokerVars, svgVars, clientVars >>

DecodeSpec == DecodeSpecInit /\ [][DecodeNext]_vars

\* The terminating characters of s: those whose sixth bit is clear.  Each
\* ends one value, so two of them make one complete pair.
CompletePairs(s) == Cardinality({ i \in 1 .. Len(s) : s[i] - 63 < 32 }) \div 2

\* C8: decodePolyline never emits a half-pair: every emitted coordinate
\* stands for a latitude and a longitude value that were both read in full
\* from the input.
C8_NoHalfPair == Len(coordinates) <= CompletePairs(encoded)

\* C9: the standard test vector decodes to (38.5, -120.2), (40.7, -120.95),
\* (43.252, -126.453): the accumulators (3850000, -12020000),
\* (4070000, -12095000), (4325200, -12645300), each divided by 1e5.
C9_StandardVector ==
    (dpc = "done" /\ encoded = StandardVector)
    => coordinates = << << Div1e5(3850000), Div1e5(-12020000) >>,
                        << Div1e5(4070000), Div1e5(-12095000) >>,
                        << Div1e5(4325200), Div1e5(-12645300) >> >>

\* C9 witness: decodePolyline has returned on the standard test vector.
C9_Witness == dpc = "done" /\ encoded = StandardVector /\ Len(coordinates) = 3

-----------------------------------------------------------------------------
(* buildSvgPath.  Numbers are exact fractions [num, den] with den > 0, so  *)
(* the arithmetic is that of the code without the rounding of doubles.     *)

Coords == {0, 1, 2}
Pads == {0, 1}
GeoPoints == { << la, lo >> : la \in Coords, lo \in Coords }

RECURSIVE PointLists(_)
PointLists(n) ==
    IF n = 0 THEN { << >> }
    ELSE { Append(ps, pt) : ps \in PointLists(n - 1), pt \in GeoPoints }

Frac(n, m) == [num |-> n, den |-> m]
FracOfInt(n) == Frac(n, 1)
FracAdd(a, b) == Frac(a.num * b.den + b.num * a.den, a.den * b.den)
FracSub(a, b) == Frac(a.num * b.den - b.num * a.den, a.den * b.den)
FracMul(a, b) == Frac(a.num * b.num, a.den * b.den)
FracHalf(a) == Frac(a.num, 2 * a.den)
FracLeq(a, b) == a.num * b.den <= b.num * a.den
FracMin(a, b) == IF FracLeq(a, b) THEN a ELSE b
FracMax(a, b) == IF FracLeq(a, b) THEN b ELSE a

\* Math.min(...xs), Math.max(...xs) over a non-empty set of integers
MinOf(S) == CHOOSE x \in S : \A y \in S : x <= y
MaxOf(S) == CHOOSE x \in S : \A y \in S : x >= y

\* maxX - minX || 1
SpanOrOne(hi, lo) == IF hi - lo = 0 THEN 1 ELSE hi - lo

\* Math.max(1, width - padding * 2)
Inner(dim, pad) == IF dim - pad * 2 >= 1 THEN dim - pad * 2 ELSE 1

\* Mutant of Scale: the larger of the two ratios is taken.
Scale_Max(innerW, dx, innerH, dy) == FracMax(Frac(innerW, dx), Frac(innerH, dy))

\* Math.min(innerW / dx, innerH / dy)
Scale(innerW, dx, innerH, dy) == FracMin(Frac(innerW, dx), Frac(innerH, dy))

\* padding + (innerW - dx * scale) / 2
Offset(pad, inner, span, scale) ==
    FracAdd(FracOfInt(pad),
            FracHalf(FracSub(FracOfInt(inner), FracMul(FracOfInt(span), scale))))

\* x.toFixed(2), as a number of hundredths: the nearest one, the larger of
\* two equally near.
ToFixed2(a) == (200 * a.num + a.den) \div (2 * a.den)

SvgInit ==
    /\ points \in UNION { PointLists(n) : n \in 0 .. MaxPoints }
    /\ width \in 0 .. MaxDim
    /\ height \in 0 .. MaxDim
    /\ padding \in Pads
    /\ mapped = << >>
    /\ d = << >>
    /\ bbox = << >>
    /\ bpc = "call"

\* if (points.length < 2) return { d: "", bbox: null }
BuildSvgPathEmpty ==
    /\ bpc = "call"
    /\ Len(points) < 2
    /\ bpc' = "done"
    /\ UNCHANGED << points, width, height, padding, mapped, d, bbox >>

\* The rest of buildSvgPath.
BuildSvgPathProject ==
    /\ bpc = "call"
    /\ Len(points) >= 2
    /\ LET xs == { points[i][2] : i \in DOMAIN points }
           ys == { points[i][1] : i \in DOMAIN points }
           minX == MinOf(xs)
           maxX == MaxOf(xs)
           minY == MinOf(ys)
           maxY == MaxOf(ys)
           dx == SpanOrOne(maxX, minX)
           dy == SpanOrOne(maxY, minY)
           innerW == Inner(width, padding)
           innerH == Inner(height, padding)
           scale == Scale(innerW, dx, innerH, dy)
           offsetX == Offset(padding, innerW, dx, scale)
           offsetY == Offset(padding, innerH, dy, scale)
           m == [i \in DOMAIN points |->
                   << FracAdd(offsetX, FracMul(FracOfInt(points[i][2] - minX), scale)),
                      FracAdd(offsetY, FracMul(FracOfInt(maxY - points[i][1]), scale)) >>]
       IN  /\ mapped' = m
           /\ d' = [i \in DOMAIN points |->
                      << IF i = 1 THEN "M" ELSE "L", ToFixed2(m[i][1]), ToFixed2(m[i][2]) >>]
           /\ bbox' = << minX, maxX, minY, maxY >>
    /\ bpc' = "done"
    /\ UNCHANGED << points, width, height, padding >>

SvgSpecInit == BrokerIdle /\ DecodeIdle /\ SvgInit /\ ClientIdle

SvgNext ==
    \/ BuildSvgPathEmpty /\ UNCHANGED << brokerVars, decodeVars, clientVars >>
    \/ BuildSvgPathProject /\ UNCHANGED << brokerVars, decodeVars, clientVars >>

SvgSpec == SvgSpecInit /\ [][SvgNext]_vars

\* Every projected point lies in [padding, width - padding] x
\* [padding, height - padding].
AllInsidePadding ==
    \A i \in DOMAIN mapped :
        /\ FracLeq(FracOfInt(padding), mapped[i][1])
        /\ FracLeq(mapped[i][1], FracOfInt(width - padding))
        /\ FracLeq(FracOfInt(padding), mapped[i][2])
        /\ FracLeq(mapped[i][2], FracOfInt(height - padding))

-----------------------------------------------------------------------------
(* MissionClient: the load effect and the stage effect.  State updates made *)
(* in one callback are committed together; the effects of a commit run in a *)
(* later step.                                                              *)

ErrorTexts == {"err"}
DetailTexts == {"det"}

\* data?.error ? `${data.error}${data.details ? ` - ${data.details}` : ""}`
\*             : "Failed to load route"
LoadFailedMessage(ld) ==
    IF ld.err = None THEN << "Failed to load route" >>
    ELSE IF ld.det = None THEN << ld.err >>
    ELSE << ld.err, " - ", ld.det >>

FetchRejectedMessage == << "Failed to fetch" >>
JsonRejectedMessage == << "Unexpected token" >>

\* Mutant of MayApply: the result is applied whether cancelled or not.
MayApply_Always(cancelled) == TRUE

\* if (!cancelled)
MayApply(cancelled) == ~cancelled

\* The timer after clearTimeout: a pending timer is cleared, any other is
\* left as it is.
Cleared(t) == IF t = "pending" THEN "cleared" ELSE t

\* load(): setError(null), then the fetch is sent.
Started == [NoLoad EXCEPT !.pc = "fetch"]

ClientInit ==
    /\ mounted = "no"
    /\ strict \in BOOLEAN
    /\ route = None
    /\ error = << >>
    /\ stage = "boot"
    /\ load = [l \in Loads |-> NoLoad]
    /\ t1 = "unset"
    /\ t2 = "unset"
    /\ effStage = "none"

\* The component mounts and its effects run: load() starts, the stage effect
\* returns at once (stage is "boot").  Under StrictMode the effects are
\* cleaned up and run again in the same commit.
Mount ==
    /\ mounted = "no"
    /\ mounted' = "yes"
    /\ load' = IF strict
               THEN [load EXCEPT ![1] = [Started EXCEPT !.cancelled = TRUE], ![2] = Started]
               ELSE [load EXCEPT ![1] = Started]
    /\ error' = << >>
    /\ effStage' = stage
    /\ UNCHANGED << strict, route, stage, t1, t2 >>

\* The catch block of load(): if (!cancelled) setError(message).
Caught(l, message) ==
    IF MayApply(load[l].cancelled)
    THEN /\ error' = message
         /\ load' = [load EXCEPT ![l].pc = "applied"]
    ELSE /\ load' = [load EXCEPT ![l].pc = "dropped"]
         /\ UNCHANGED error

\* fetch resolves with a 2xx answer: "await res.json()" is next.
LoadFetchOk(l) ==
    /\ load[l].pc = "fetch"
    /\ \E b \in RoutePayloads :
         load' = [load EXCEPT ![l].pc = "json", ![l].ok = TRUE, ![l].body = b]
    /\ UNCHANGED << mounted, strict, route, error, stage, t1, t2, effStage >>

\* fetch resolves with a non-2xx answer: "await res.json()" is next.
LoadFetchNotOk(l) ==
    /\ load[l].pc = "fetch"
    /\ \E e \in ErrorTexts \cup {None}, dt \in DetailTexts \cup {None} :
         load' = [load EXCEPT ![l].pc = "json", ![l].ok = FALSE, ![l].err = e, ![l].det = dt]
    /\ UNCHANGED << mounted, strict, route, error, stage, t1, t2, effStage >>

\* fetch rejects.
LoadFetchRejects(l) ==
    /\ load[l].pc = "fetch"
    /\ Caught(l, FetchRejectedMessage)
    /\ UNCHANGED << mounted, strict, route, stage, t1, t2, effStage >>

\* res.json() rejects.
LoadJsonRejects(l) ==
    /\ load[l].pc = "json"
    /\ Caught(l, JsonRejectedMessage)
    /\ UNCHANGED << mounted, strict, route, stage, t1, t2, effStage >>

\* res.json() resolves: throw if !res.ok, else setRoute and setStage unless
\* cancelled.
LoadJson(l) ==
    /\ load[l].pc = "json"
    /\ IF ~load[l].ok
       THEN /\ Caught(l, LoadFailedMessage(load[l]))
            /\ UNCHANGED << route, stage >>
       ELSE IF MayApply(load[l].cancelled)
       THEN /\ route' = load[l].body
            /\ stage' = "briefing"
            /\ load' = [load EXCEPT ![l].pc = "applied"]
            /\ UNCHANGED error
       ELSE /\ load' = [load EXCEPT ![l].pc = "dropped"]
            /\ UNCHANGED << route, stage, error >>
    /\ UNCHANGED << mounted, strict, t1, t2, effStage >>

\* After a commit in which stage changed: the cleanup of the stage effect's
\* last run (it has one only if that run was with "briefing"), then the
\* effect again.
FlushStageEffect ==
    /\ mounted = "yes"
    /\ stage # effStage
    /\ IF stage = "briefing"
       THEN t1' = "pending" /\ t2' = "pending"
       ELSE IF effStage = "briefing"
       THEN t1' = Cleared(t1) /\ t2' = Cleared(t2)
       ELSE UNCHANGED << t1, t2 >>
    /\ effStage' = stage
    /\ UNCHANGED << mounted, strict, route, error, stage, load >>

\* t1 fires after 1600 ms: setStage("reveal").
FireT1 ==
    /\ t1 = "pending"
    /\ t1' = "fired"
    /\ stage' = "reveal"
    /\ UNCHANGED << mounted, strict, route, error, load, t2, effStage >>

\* t2 fires after 4200 ms, so not before t1: setStage("complete").
FireT2 ==
    /\ t2 = "pending"
    /\ t1 # "pending"
    /\ t2' = "fired"
    /\ stage' = "complete"
    /\ UNCHANGED << mounted, strict, route, error, load, t1, effStage >>

\* The component unmounts: the cleanups of both effects run.
Unmount ==
    /\ mounted = "yes"
    /\ mounted' = "gone"
    /\ load' = [l \in Loads |->
                  IF l = (IF strict THEN 2 ELSE 1)
                  THEN [load[l] EXCEPT !.cancelled = TRUE] ELSE load[l]]
    /\ IF effStage = "briefing"
       THEN t1' = Cleared(t1) /\ t2' = Cleared(t2)
       ELSE UNCHANGED << t1, t2 >>
    /\ UNCHANGED << strict, route, error, stage, effStage >>

ClientSpecInit == BrokerIdle /\ DecodeIdle /\ SvgIdle /\ ClientInit

ClientNext ==
    \/ Mount /\ UNCHANGED << brokerVars, decodeVars, svgVars >>
    \/ \E l \in Loads : LoadFetchOk(l) /\ UNCHANGED << brokerVars, decodeVars, svgVars >>
    \/ \E l \in Loads : LoadFetchNotOk(l) /\ UNCHANGED << brokerVars, decodeVars, svgVars >>
    \/ \E l \in Loads : LoadFetchRejects(l) /\ UNCHANGED << brokerVars, decodeVars, svgVars >>
    \/ \E l \in Loads : LoadJsonRejects(l) /\ UNCHANGED << brokerVars, decodeVars, svgVars >>
    \/ \E l \in Loads : LoadJson(l) /\ UNCHANGED << brokerVars, decodeVars, svgVars >>
    \/ FlushStageEffect /\ UNCHANGED << brokerVars, decodeVars, svgVars >>
    \/ FireT1 /\ UNCHANGED << brokerVars, decodeVars, svgVars >>
    \/ FireT2 /\ UNCHANGED << brokerVars, decodeVars, svgVars >>
    \/ Unmount /\ UNCHANGED << brokerVars, decodeVars, svgVars >>

ClientSpec == ClientSpecInit /\ [][ClientNext]_vars

\* Timers that are due fire, and the effects of a commit run.
ClientFairSpec ==
    /\ ClientSpecInit
    /\ [][ClientNext]_vars
    /\ WF_vars(FireT1 /\ UNCHANGED << brokerVars, decodeVars, svgVars >>)
    /\ WF_vars(FireT2 /\ UNCHANGED << brokerVars, decodeVars, svgVars >>)
    /\ WF_vars(FlushStageEffect /\ UNCHANGED << brokerVars, decodeVars, svgVars >>)

\* C14: once the stage is "briefing", while the component stays mounted and
\* timers fire, the stage becomes "reveal" and afterwards "complete".
C14_RevealSequenceCompletes ==
    (stage = "briefing") ~> (stage = "complete" \/ mounted = "gone")

\* C15: after the cleanup of the load effect has set cancelled, no step of
\* that load (its fetch or res.json() settling, with success or failure)
\* changes route, stage or error.
C15_CancelledLoadInert ==
    [][\A l \in Loads :
          (load[l].cancelled /\ load'[l] # load[l])
          => (route' = route /\ stage' = stage /\ error' = error)]_vars

\* C15 witness: in the mounted component a load that was cancelled has
\* settled and its result was dropped, while the other load is still running.
C15_Witness ==
    /\ mounted = "yes"
    /\ load[1].cancelled
    /\ load[1].pc = "dropped"
    /\ load[1].ok
    /\ load[2].pc = "fetch"

====
